---- MODULE Spec2Model ----
(***************************************************************************)
(* Model of the orchestrar milestone orchestrator (src/orchestrator.js).   *)
(*                                                                         *)
(* The orchestrator is one sequential async function: every `await` is a   *)
(* point where the session provider (and the agents it runs) may take      *)
(* steps.  pc names the await the orchestrator is suspended at; an action  *)
(* runs the synchronous code from that point up to the next await.         *)
(* The session provider is outside the repository: it is modelled by the   *)
(* interface of spec.md section 6 (create, prompt, command, message,       *)
(* status, dispose), every call answering with data or with an error.      *)
(***************************************************************************)
EXTENDS Integers, Sequences, FiniteSets, TLC

(***************************************************************************)
(* Bounds of the model.  Times are in ticks of a coarse clock; the         *)
(* timeouts and the poll interval are the configured values on that scale  *)
(* (ORCHESTRATOR_SESSION_TIMEOUT_MS, ORCHESTRATOR_REVIEW_TIMEOUT_MS,       *)
(* ORCHESTRATOR_STATUS_POLL_INTERVAL_MS).                                  *)
(***************************************************************************)
\* The milestone cycles a run may start.
MaxMilestones == 2
\* timeoutMs of the work and commit sessions' waits.
SessionTimeoutMs == 2
\* timeoutMs of the review session's wait.
ReviewTimeoutMs == 1
\* pollIntervalMs.
PollIntervalMs == 1
\* The longest a status call takes to answer.
MaxCallDelay == 2
\* The longest a timer fires after it is due.
MaxTimerLag == 1
\* The longest checklist text hasUnfinishedTasks is applied to on its own.
MaxTextLen == 5
\* The most lexemes before the tail of a review output extractReviewJson is
\* applied to on its own.
MaxPrefixLen == 3
\* The longest value of ORCHESTRATOR_MAX_REVIEW_ITERATIONS parseNumber is
\* applied to on its own.
MaxEnvLen == 3

DEFAULT_MAX_REVIEW_ITERATIONS == 20

(***************************************************************************)
(* Texts are sequences of characters (of lexemes, for review output).      *)
(***************************************************************************)
IsWhitespace(c) == c \in {" ", "\t", "\n"}

IsLineTerminator(c) == c = "\n"

IsDigit(c) == c \in {"0", "1", "2", "3", "4", "5", "6", "7", "8", "9"}

DigitValue(c) ==
  CASE c = "0" -> 0 [] c = "1" -> 1 [] c = "2" -> 2 [] c = "3" -> 3
    [] c = "4" -> 4 [] c = "5" -> 5 [] c = "6" -> 6 [] c = "7" -> 7
    [] c = "8" -> 8 [] c = "9" -> 9

AllWhitespace(s, a, b) == \A k \in a..b : IsWhitespace(s[k])

\* String.prototype.trim: the text without leading and trailing whitespace.
RECURSIVE TrimStart(_)
TrimStart(s) ==
  IF s # <<>> /\ IsWhitespace(Head(s)) THEN TrimStart(Tail(s)) ELSE s

RECURSIVE TrimEnd(_)
TrimEnd(s) ==
  IF s # <<>> /\ IsWhitespace(s[Len(s)])
  THEN TrimEnd(SubSeq(s, 1, Len(s) - 1))
  ELSE s

Trim(s) == TrimEnd(TrimStart(s))

(***************************************************************************)
(* hasUnfinishedTasks: /^\s*[-*+]\s+\[\s\]/m tested on the file content.   *)
(* With the m flag ^ matches at the start of the text and after every line *)
(* terminator; \s matches line terminators as well as blanks.              *)
(***************************************************************************)
AtLineStart(s, i) == IF i = 1 THEN TRUE ELSE IsLineTerminator(s[i - 1])

UncheckedPatternAt(s, i) ==
  \E j \in i..Len(s) : \E k \in (j + 2)..Len(s) :
    /\ AllWhitespace(s, i, j - 1)
    /\ s[j] \in {"-", "*", "+"}
    /\ AllWhitespace(s, j + 1, k - 1)
    /\ k + 2 <= Len(s)
    /\ s[k] = "["
    /\ IsWhitespace(s[k + 1])
    /\ s[k + 2] = "]"

hasUnfinishedTasks(content) ==
  \E i \in 1..Len(content) :
    AtLineStart(content, i) /\ UncheckedPatternAt(content, i)

(***************************************************************************)
(* parseNumber(value, fallback).  An environment variable is unset or a    *)
(* text; Number.parseInt skips leading whitespace, reads an optional sign  *)
(* and the longest run of digits, and is NaN when there is no digit.       *)
(***************************************************************************)
Unset == [set |-> FALSE, text |-> <<>>]

EnvText(t) == [set |-> TRUE, text |-> t]

RECURSIVE DigitPrefix(_)
DigitPrefix(s) ==
  IF s # <<>> /\ IsDigit(Head(s)) THEN <<Head(s)>> \o DigitPrefix(Tail(s)) ELSE <<>>

RECURSIVE DecimalValue(_)
DecimalValue(ds) ==
  IF ds = <<>> THEN 0
  ELSE 10 * DecimalValue(SubSeq(ds, 1, Len(ds) - 1)) + DigitValue(ds[Len(ds)])

\* [nan |-> TRUE] or [nan |-> FALSE, n |-> the integer read]
parseInt(text) ==
  LET t == TrimStart(text)
      neg == t # <<>> /\ Head(t) = "-"
      signed == t # <<>> /\ Head(t) \in {"-", "+"}
      ds == DigitPrefix(IF signed THEN Tail(t) ELSE t)
  IN  IF ds = <<>> THEN [nan |-> TRUE, n |-> 0]
      ELSE [nan |-> FALSE, n |-> IF neg THEN 0 - DecimalValue(ds) ELSE DecimalValue(ds)]

\* Mutant: any integer read is taken, positive or not.
parseNumberAnyInteger(value, fallback) ==
  IF ~value.set \/ value.text = <<>> THEN fallback
  ELSE LET parsed == parseInt(value.text)
       IN  IF ~parsed.nan THEN parsed.n ELSE fallback

parseNumber(value, fallback) ==
  IF ~value.set \/ value.text = <<>> THEN fallback
  ELSE LET parsed == parseInt(value.text)
       IN  IF ~parsed.nan /\ parsed.n > 0 THEN parsed.n ELSE fallback

(***************************************************************************)
(* Review output.  A text is a sequence of lexemes: the JSON punctuation   *)
(* { } [ ] : , ; whitespace; string literals ("\"findings\"" is the        *)
(* literal "findings"); number literals; null; and prose words, which are  *)
(* no JSON.  No string literal of the alphabet contains a brace.           *)
(***************************************************************************)
IsStringLexeme(c) == c \in {"\"findings\"", "\"a\""}

\* The string a string literal denotes.
StringValue(c) == IF c = "\"findings\"" THEN "findings" ELSE "a"

IsNumberLexeme(c) == IsDigit(c)

JNull == [type |-> "null"]

JNumber(n) == [type |-> "number", n |-> n]

JString(c) == [type |-> "string", s |-> c]

JArray(items) == [type |-> "array", items |-> items]

\* fields: the members in source order, each <<key, value>>
JObject(fields) == [type |-> "object", fields |-> fields]

ParseError == [ok |-> FALSE, value |-> JNull, rest |-> <<>>]

Parsed(v, rest) == [ok |-> TRUE, value |-> v, rest |-> TrimStart(rest)]

RECURSIVE ParseValue(_)
RECURSIVE ParseMembers(_, _)
RECURSIVE ParseElements(_, _)

\* After a member or element list: s starts at the next key or element.
ParseMembers(s, fields) ==
  LET t == TrimStart(s)
      u == IF t = <<>> THEN <<>> ELSE TrimStart(Tail(t))
      v == IF u = <<>> THEN ParseError ELSE ParseValue(Tail(u))
  IN  IF t = <<>> \/ ~IsStringLexeme(Head(t)) THEN ParseError
      ELSE IF u = <<>> \/ Head(u) # ":" THEN ParseError
      ELSE IF ~v.ok \/ v.rest = <<>> THEN ParseError
      ELSE IF Head(v.rest) = ","
           THEN ParseMembers(Tail(v.rest), Append(fields, <<StringValue(Head(t)), v.value>>))
      ELSE IF Head(v.rest) = "}"
           THEN Parsed(JObject(Append(fields, <<StringValue(Head(t)), v.value>>)), Tail(v.rest))
      ELSE ParseError

ParseElements(s, items) ==
  LET v == ParseValue(s)
  IN  IF ~v.ok \/ v.rest = <<>> THEN ParseError
      ELSE IF Head(v.rest) = ","
           THEN ParseElements(Tail(v.rest), Append(items, v.value))
      ELSE IF Head(v.rest) = "]"
           THEN Parsed(JArray(Append(items, v.value)), Tail(v.rest))
      ELSE ParseError

ParseValue(s) ==
  LET t == TrimStart(s)
      r == IF t = <<>> THEN <<>> ELSE TrimStart(Tail(t))
  IN  IF t = <<>> THEN ParseError
      ELSE IF Head(t) = "{"
           THEN IF r # <<>> /\ Head(r) = "}"
                THEN Parsed(JObject(<<>>), Tail(r))
                ELSE ParseMembers(r, <<>>)
      ELSE IF Head(t) = "["
           THEN IF r # <<>> /\ Head(r) = "]"
                THEN Parsed(JArray(<<>>), Tail(r))
                ELSE ParseElements(r, <<>>)
      ELSE IF IsNumberLexeme(Head(t)) THEN Parsed(JNumber(DigitValue(Head(t))), Tail(t))
      ELSE IF IsStringLexeme(Head(t)) THEN Parsed(JString(StringValue(Head(t))), Tail(t))
      ELSE IF Head(t) = "null" THEN Parsed(JNull, Tail(t))
      ELSE ParseError

\* JSON.parse(text): the value, or a SyntaxError (ok = FALSE).
JSONparse(text) ==
  LET r == ParseValue(text)
  IN  IF r.ok /\ r.rest = <<>> THEN r ELSE ParseError

\* `key in value` for a parsed value.
HasKey(v, key) ==
  v.type = "object" /\ \E i \in 1..Len(v.fields) : v.fields[i][1] = key

\* value[key] of an object that has the key (a repeated key: the last wins).
Field(v, key) ==
  LET is == {i \in 1..Len(v.fields) : v.fields[i][1] = key}
  IN  v.fields[CHOOSE i \in is : \A j \in is : j <= i][2]

\* String.prototype.lastIndexOf(c, position), 0-based; -1 when absent.  The
\* position is clamped to 0..length, so a negative position searches at 0.
lastIndexOf(s, c, position) ==
  LET start == IF position < 0 THEN 0
               ELSE IF position > Len(s) THEN Len(s) ELSE position
      at == {i \in 0..start : i < Len(s) /\ s[i + 1] = c}
  IN  IF at = {} THEN 0 - 1 ELSE CHOOSE i \in at : \A j \in at : j <= i

\* String.prototype.slice(index), 0-based.
Slice(s, index) == SubSeq(s, index + 1, Len(s))

AcceptsReviewJson(r) ==
  r.ok /\ r.value.type \in {"object", "array"} /\ HasKey(r.value, "findings")

\* The while loop of extractReviewJson from `index`.  When the candidate at
\* index 0 is rejected, lastIndexOf("{", -1) is 0 again: the loop repeats the
\* same iteration for ever ("hang").
RECURSIVE ScanBraces(_, _)
ScanBraces(trimmed, index) ==
  IF index = 0 - 1 THEN [outcome |-> "ParseFailure", value |-> JNull]
  ELSE LET r == JSONparse(Trim(Slice(trimmed, index)))
           next == lastIndexOf(trimmed, "{", index - 1)
       IN  IF AcceptsReviewJson(r) THEN [outcome |-> "parsed", value |-> r.value]
           ELSE IF next = index THEN [outcome |-> "hang", value |-> JNull]
           ELSE ScanBraces(trimmed, next)

extractReviewJson(output) ==
  LET trimmed == Trim(output)
  IN  IF trimmed = <<>> THEN [outcome |-> "EmptyOutput", value |-> JNull]
      ELSE ScanBraces(trimmed, lastIndexOf(trimmed, "{", Len(trimmed)))

\* Mutant: the length test inverted.
isFindingsEmptyInverted(reviewJson) ==
  IF reviewJson.type \notin {"object", "array"} THEN "NotObject"
  ELSE IF ~HasKey(reviewJson, "findings") THEN "NoFindingsArray"
  ELSE IF Field(reviewJson, "findings").type # "array" THEN "NoFindingsArray"
  ELSE IF Len(Field(reviewJson, "findings").items) # 0 THEN "empty"
  ELSE "nonempty"

\* Mutant: a result without a findings sequence counts as no findings.
isFindingsEmptyLenient(reviewJson) ==
  IF reviewJson.type \notin {"object", "array"} THEN "empty"
  ELSE IF ~HasKey(reviewJson, "findings") THEN "empty"
  ELSE IF Field(reviewJson, "findings").type # "array" THEN "empty"
  ELSE IF Len(Field(reviewJson, "findings").items) = 0 THEN "empty"
  ELSE "nonempty"

\* isFindingsEmpty: "NotObject" and "NoFindingsArray" are its two throws.
isFindingsEmpty(reviewJson) ==
  IF reviewJson.type \notin {"object", "array"} THEN "NotObject"
  ELSE IF ~HasKey(reviewJson, "findings") THEN "NoFindingsArray"
  ELSE IF Field(reviewJson, "findings").type # "array" THEN "NoFindingsArray"
  ELSE IF Len(Field(reviewJson, "findings").items) = 0 THEN "empty"
  ELSE "nonempty"

(***************************************************************************)
(* collectCommandOutput(parts).  A part is a text part or a tool part with *)
(* a state; `parts` itself may be absent (undefined) in a response.        *)
(***************************************************************************)
TextPart(t) == [type |-> "text", text |-> t, status |-> "", output |-> <<>>, error |-> <<>>]

ToolPart(status, output, err) ==
  [type |-> "tool", text |-> <<>>, status |-> status, output |-> output, error |-> err]

NoParts == [present |-> FALSE, list |-> <<>>]

Parts(list) == [present |-> TRUE, list |-> list]

PartChunk(part) ==
  IF part.type = "text" THEN <<part.text>>
  ELSE IF part.type = "tool" /\ part.status = "completed" THEN <<part.output>>
  ELSE IF part.type = "tool" /\ part.status = "error" THEN <<part.error>>
  ELSE <<>>

RECURSIVE Chunks(_)
Chunks(list) ==
  IF list = <<>> THEN <<>> ELSE PartChunk(Head(list)) \o Chunks(Tail(list))

\* Array.prototype.join("\n")
RECURSIVE JoinLines(_)
JoinLines(chunks) ==
  IF chunks = <<>> THEN <<>>
  ELSE IF Len(chunks) = 1 THEN Head(chunks)
  ELSE Head(chunks) \o <<"\n">> \o JoinLines(Tail(chunks))

collectCommandOutput(parts) ==
  IF ~parts.present THEN <<>> ELSE JoinLines(Chunks(parts.list))

(***************************************************************************)
(* Inputs of the model.                                                    *)
(***************************************************************************)
\* PLAN.md contents the agents may leave behind.
PlanTexts ==
  { <<"-", " ", "[", " ", "]">>,
    <<"-", " ", "[", "x", "]">>,
    <<"-", " ", "[", "x", "]", "\n", "*", " ", "[", " ", "]">> }

\* Values of ORCHESTRATOR_MAX_REVIEW_ITERATIONS.
EnvMaxIterations ==
  { Unset, EnvText(<<>>), EnvText(<<"a">>), EnvText(<<"0">>),
    EnvText(<<"-", "1">>), EnvText(<<"1">>), EnvText(<<"2">>) }

CleanJson == <<"{", "\"findings\"", ":", "[", "]", "}">>

FindingsJson == <<"{", "\"findings\"", ":", "[", "1", "]", "}">>

\* Answers of session.command: the response parts and whether info.id is set.
CommandResults ==
  { [parts |-> Parts(<<TextPart(<<"prose", " ">> \o CleanJson)>>), messageID |-> FALSE],
    [parts |-> Parts(<<TextPart(FindingsJson)>>), messageID |-> FALSE],
    [parts |-> Parts(<<TextPart(FindingsJson)>>), messageID |-> TRUE],
    [parts |-> NoParts, messageID |-> FALSE] }

\* Answers of session.message: the parts of the re-fetched message.
MessageParts ==
  { NoParts,
    Parts(<<>>),
    Parts(<<TextPart(<<"prose", "{", " ">> \o CleanJson \o <<"\n">>)>>),
    Parts(<<ToolPart("completed", FindingsJson, <<>>)>>),
    Parts(<<ToolPart("error", <<>>, <<"prose">>)>>),
    Parts(<<TextPart(<<"{", "\"findings\"", ":", "1", "}">>)>>),
    Parts(<<TextPart(<<"{", "\"a\"", ":", "1", "}">>)>>) }

(***************************************************************************)
(* State.                                                                  *)
(***************************************************************************)
VARIABLES
  pc,             \* the await the orchestrator is suspended at
  error,          \* the exception being propagated, "none" when there is none
  exitCode,       \* process.exitCode
  planContent,    \* the content of PLAN.md
  unfinished,     \* what the last hasUnfinishedTasks read found: "unread", "yes", "no"
  milestoneIndex, \* main's counter of cycles started
  readsFound,     \* top-level reads that found an unchecked item
  maxIterations,  \* runReviewLoop's bound
  iteration,      \* runReviewLoop's counter
  instances,      \* provider: the instances created in this cycle, in order
  workId,         \* runWorkInstance's {client, server}; 0 outside its try
  reviewId,       \* runReviewCommand's {client, server}; 0 outside its try
  commitId,       \* runCommitInstance's {client, server}; 0 outside its try
  commandResult,  \* runReviewCommand's commandResult
  reviewResult,   \* runReviewLoop's reviewResult
  wait,           \* waitForSessionIdle's arguments and return point
  elapsed,        \* waitForSessionIdle: Date.now() - start
  status,         \* waitForSessionIdle: the status read last ("none" outside a wait)
  log,            \* the prompts, commands, idle observations and review results of the cycle
  fetched,        \* runReviewCommand's message: the answer of session.message, if asked for
  disposeLogged,  \* the disposeInstance just run logged "Instance dispose failed"
  fnArg,          \* the function applied on its own, and its argument (FnSpec)
  fnResult        \* what that function returned (FnSpec)

vars ==
  << pc, error, exitCode, planContent, unfinished, milestoneIndex, readsFound,
     maxIterations, iteration, instances, workId, reviewId, commitId,
     commandResult, reviewResult, wait, elapsed, status, log,
     fetched, disposeLogged, fnArg, fnResult >>

NoCommand == [parts |-> NoParts, messageID |-> FALSE]

NoWait == [sid |-> 0, timeoutMs |-> 0, ret |-> "none"]

\* No message was fetched.
NoMessage == [done |-> FALSE, parts |-> NoParts]

NoCall == [fn |-> "none", value |-> Unset]

NoResult == [outcome |-> "none", value |-> JNull]

\* An instance of the provider with its one session: the session is absent
\* ("none"), idle, or has a turn pending or running.
NewInstance(kind) ==
  [kind |-> kind, session |-> "none", received |-> 0, disposeCalls |-> 0, closes |-> 0]

Init ==
  /\ pc = "start"
  /\ error = "none"
  /\ exitCode = 0
  /\ planContent \in PlanTexts
  /\ unfinished = "unread"
  /\ milestoneIndex = 0
  /\ readsFound = 0
  /\ maxIterations \in {parseNumber(v, DEFAULT_MAX_REVIEW_ITERATIONS) : v \in EnvMaxIterations}
  /\ iteration = 0
  /\ instances = <<>>
  /\ workId = 0
  /\ reviewId = 0
  /\ commitId = 0
  /\ commandResult = NoCommand
  /\ reviewResult = JNull
  /\ wait = NoWait
  /\ elapsed = 0
  /\ status = "none"
  /\ log = <<>>
  /\ fetched = NoMessage
  /\ disposeLogged = FALSE
  /\ fnArg = NoCall
  /\ fnResult = NoResult

(***************************************************************************)
(* Exceptions.  A throw runs the finally block of the innermost try that   *)
(* is open (runReviewCommand's inside runWorkInstance's, or                *)
(* runCommitInstance's), then the next one out, then main().catch.         *)
(***************************************************************************)
\* Mutant: no finally block, a throw goes straight to main().catch.
HandlerPcNoFinally(work, review, commit) == "catch"

HandlerPc(work, review, commit) ==
  IF review # 0 THEN "review_dispose"
  ELSE IF work # 0 THEN "work_dispose"
  ELSE IF commit # 0 THEN "commit_dispose"
  ELSE "catch"

Throw(e) ==
  /\ error' = e
  /\ pc' = HandlerPc(workId, reviewId, commitId)

\* Mutant: the finally block swallows the exception.
AfterFinallySwallows(err, handler, next) == next

\* Where control goes when a finally block ends: on with the exception it
\* interrupted, or on with the statement after the try.
AfterFinally(err, handler, next) == IF err # "none" THEN handler ELSE next

(***************************************************************************)
(* main                                                                    *)
(***************************************************************************)
\* resolveDocPath: the root is checked first, then docs/.
resolveDocPath(atRoot, atDocs) ==
  IF atRoot THEN "root" ELSE IF atDocs THEN "docs" ELSE "missing"

DocNames == {"PRD.md", "SPEC.md", "PLAN.md"}

\* resolveDocs, then the import of the SDK.
Start ==
  /\ pc = "start"
  /\ \E atRoot \in SUBSET DocNames, atDocs \in SUBSET DocNames :
       IF \E d \in DocNames : resolveDocPath(d \in atRoot, d \in atDocs) = "missing"
       THEN Throw("ConfigurationError")
       ELSE pc' = "loop" /\ error' = error
  /\ UNCHANGED << exitCode, planContent, unfinished, milestoneIndex, readsFound,
                  maxIterations, iteration, instances, workId, reviewId, commitId,
                  commandResult, reviewResult, wait, elapsed, status, log,
                  fetched, disposeLogged, fnArg, fnResult >>

\* Mutant: the loop runs a cycle whatever the read found.
WhileConditionAlways(found) == TRUE

\* The condition of main's while loop, given what the read found.
WhileCondition(found) == found

\* while (await hasUnfinishedTasks(planPath)) { milestoneIndex += 1; ... }
MainLoop ==
  /\ pc = "loop"
  /\ \E readOk \in BOOLEAN :
       LET found == hasUnfinishedTasks(planContent)
       IN  \/ /\ ~readOk
              /\ Throw("ReadError")
              /\ UNCHANGED << exitCode, unfinished, milestoneIndex, readsFound,
                              instances, log >>
           \/ /\ readOk
              /\ WhileCondition(found)
              /\ milestoneIndex < MaxMilestones
              /\ unfinished' = IF found THEN "yes" ELSE "no"
              /\ readsFound' = IF found THEN readsFound + 1 ELSE readsFound
              /\ milestoneIndex' = milestoneIndex + 1
              /\ instances' = <<>>
              /\ log' = <<>>
              /\ pc' = "work_create"
              /\ UNCHANGED << error, exitCode >>
           \/ /\ readOk
              /\ ~WhileCondition(found)
              /\ unfinished' = IF found THEN "yes" ELSE "no"
              /\ readsFound' = IF found THEN readsFound + 1 ELSE readsFound
              /\ exitCode' = 0
              /\ pc' = "done"
              /\ UNCHANGED << error, milestoneIndex, instances, log >>
  /\ disposeLogged' = FALSE
  /\ UNCHANGED << planContent, maxIterations, iteration, workId,
                  reviewId, commitId, commandResult, reviewResult, wait, elapsed, status,
                  fetched, fnArg, fnResult >>

\* Mutant: the handler reports the failure and leaves the exit code alone.
ExitCodeKept(current) == current

\* The exit code main().catch sets, given the one set so far.
FailureExitCode(current) == 1

\* main().catch
Catch ==
  /\ pc = "catch"
  /\ exitCode' = FailureExitCode(exitCode)
  /\ pc' = "done"
  /\ disposeLogged' = FALSE
  /\ UNCHANGED << error, planContent, unfinished, milestoneIndex, readsFound,
                  maxIterations, iteration, instances, workId, reviewId, commitId,
                  commandResult, reviewResult, wait, elapsed, status, log,
                  fetched, fnArg, fnResult >>

(***************************************************************************)
(* Provider calls shared by the phases.                                    *)
(***************************************************************************)
\* createOpencode: a new instance (server and client), or an error.
CreateOpencode(kind, next) ==
  \E ok \in BOOLEAN :
    IF ok
    THEN /\ instances' = Append(instances, NewInstance(kind))
         /\ pc' = next
         /\ error' = error
    ELSE /\ Throw("ProviderError")
         /\ instances' = instances

\* session.create and extractSessionID: a session with an id, a session
\* whose response carries no id, or an error payload.
SessionCreate(id, next) ==
  \E response \in {"session", "noid", "error"} :
    /\ instances' = IF response = "error" THEN instances
                    ELSE [instances EXCEPT ![id].session = "idle"]
    /\ IF response = "session" THEN pc' = next /\ error' = error
       ELSE IF response = "noid" THEN Throw("MalformedResponse")
       ELSE Throw("ProviderError")

\* The provider takes a prompt or a command: the session has a turn pending.
Deliver(id) ==
  [instances EXCEPT ![id].received = @ + 1,
                    ![id].session = IF @ = "idle" THEN "pending" ELSE @]

\* Where control goes once a prompt is acknowledged: into waitForSessionIdle,
\* whose first status call is issued at once (start = Date.now()).
AfterPrompt == "wait_status"

\* sendPrompt, followed at every call site by waitForSessionIdle.
SendPrompt(id, event, ret) ==
  \E ok \in BOOLEAN :
    IF ok
    THEN /\ instances' = Deliver(id)
         /\ log' = Append(log, event)
         /\ wait' = [sid |-> id, timeoutMs |-> SessionTimeoutMs, ret |-> ret]
         /\ elapsed' = 0
         /\ status' = "none"
         /\ pc' = AfterPrompt
         /\ error' = error
    ELSE /\ Throw("ProviderError")
         /\ UNCHANGED << instances, log, wait, elapsed, status >>

\* Mutant: a failure of instance.dispose escapes disposeInstance.
DisposeResultThrows(ok, pending) == IF ok THEN pending ELSE "ProviderError"

\* The exception pending when disposeInstance returns: its catch swallows a
\* failure of instance.dispose, so it is the one pending when it was called.
DisposeResult(ok, pending) == pending

\* Mutant: the finally block disposes nothing.
DisposeInstanceSkipped(id) ==
  \E ok \in BOOLEAN :
    /\ instances' = instances
    /\ disposeLogged' = ~ok
    /\ error' = DisposeResult(ok, error)

\* Mutant: dispose is by directory, and ends every instance of the directory.
DisposeInstanceByDirectory(id) ==
  \E ok \in BOOLEAN :
    /\ instances' = [i \in 1..Len(instances) |->
                       IF i = id \/ instances[i].closes = 0
                       THEN [instances[i] EXCEPT !.disposeCalls = @ + 1, !.closes = @ + 1]
                       ELSE instances[i]]
    /\ disposeLogged' = ~ok
    /\ error' = DisposeResult(ok, error)

\* disposeInstance: instance.dispose on the instance's own client, whose
\* failure (ok = FALSE) is logged and swallowed, then server.close() on the
\* instance's own server in either case.
DisposeInstance(id) ==
  \E ok \in BOOLEAN :
    /\ instances' = [instances EXCEPT ![id].disposeCalls = @ + 1,
                                      ![id].closes = @ + 1]
    /\ disposeLogged' = ~ok
    /\ error' = DisposeResult(ok, error)

(***************************************************************************)
(* waitForSessionIdle                                                      *)
(***************************************************************************)
IdleEvent(ret) ==
  CASE ret = "review_enter" -> "workIdle"
    [] ret = "review_fetch" -> "reviewIdle"
    [] ret = "review_next" -> "fixIdle"
    [] ret = "work_dispose" -> "markIdle"
    [] ret = "commit_dispose" -> "commitIdle"

\* statusMap?.[sessionID] as the poller sees it.
StatusOf(present, session) ==
  IF ~present \/ session = "none" THEN "missing"
  ELSE IF session = "idle" THEN "idle"
  ELSE "busy"

\* Mutant: the poller returns on any status of the session, idle or not.
PollDecisionAnyStatus(st) == IF st = "missing" THEN "throw" ELSE "return"

\* Mutant: the poller takes a missing session for a busy one and polls again.
PollDecisionRetriesMissing(st) == IF st = "idle" THEN "return" ELSE "delay"

\* What the poller does with a status.
PollDecision(st) ==
  IF st = "missing" THEN "throw"
  ELSE IF st = "idle" THEN "return"
  ELSE "delay"

\* The condition of the poll loop: Date.now() - start < timeoutMs.
WithinTimeout(e, timeoutMs) == e < timeoutMs

\* The answer to a status call arrives, dt after it was issued.
WaitStatus ==
  /\ pc = "wait_status"
  /\ \E dt \in 0..MaxCallDelay, answer \in {"error", "missing", "present"} :
       /\ elapsed' = elapsed + dt
       /\ status' = IF answer = "error" THEN status
                    ELSE StatusOf(answer = "present", instances[wait.sid].session)
       /\ IF answer = "error"
          THEN Throw("ProviderError") /\ log' = log
          ELSE LET decision ==
                     PollDecision(StatusOf(answer = "present", instances[wait.sid].session))
               IN  IF decision = "throw" THEN Throw("SessionMissing") /\ log' = log
                   ELSE IF decision = "return"
                   THEN /\ pc' = wait.ret
                        /\ log' = Append(log, IdleEvent(wait.ret))
                        /\ error' = error
                   ELSE /\ pc' = "wait_delay"
                        /\ log' = log
                        /\ error' = error
  /\ UNCHANGED << exitCode, planContent, unfinished, milestoneIndex, readsFound,
                  maxIterations, iteration, instances, workId, reviewId, commitId,
                  commandResult, reviewResult, wait,
                  fetched, disposeLogged, fnArg, fnResult >>

\* delay(pollIntervalMs) ends, no sooner than asked; then the loop condition.
WaitDelay ==
  /\ pc = "wait_delay"
  /\ \E dt \in PollIntervalMs..(PollIntervalMs + MaxTimerLag) :
       /\ elapsed' = elapsed + dt
       /\ IF WithinTimeout(elapsed + dt, wait.timeoutMs)
          THEN pc' = "wait_status" /\ error' = error
          ELSE Throw("Timeout")
  /\ UNCHANGED << exitCode, planContent, unfinished, milestoneIndex, readsFound,
                  maxIterations, iteration, instances, workId, reviewId, commitId,
                  commandResult, reviewResult, wait, status, log,
                  fetched, disposeLogged, fnArg, fnResult >>

(***************************************************************************)
(* runWorkInstance                                                         *)
(***************************************************************************)
\* Mutant: every phase is bound to the first instance of the cycle.
CreatedFirst == IF Len(instances') > Len(instances) THEN 1 ELSE 0

\* The slot a createOpencode result is bound to: the new instance, if any.
Created == IF Len(instances') > Len(instances) THEN Len(instances') ELSE 0

WorkCreate ==
  /\ pc = "work_create"
  /\ CreateOpencode("work", "work_session")
  /\ workId' = Created
  /\ UNCHANGED << exitCode, planContent, unfinished, milestoneIndex, readsFound,
                  maxIterations, iteration, reviewId, commitId, commandResult,
                  reviewResult, wait, elapsed, status, log,
                  fetched, disposeLogged, fnArg, fnResult >>

WorkSession ==
  /\ pc = "work_session"
  /\ SessionCreate(workId, "work_prompt")
  /\ UNCHANGED << exitCode, planContent, unfinished, milestoneIndex, readsFound,
                  maxIterations, iteration, workId, reviewId, commitId,
                  commandResult, reviewResult, wait, elapsed, status, log,
                  fetched, disposeLogged, fnArg, fnResult >>

\* The milestone prompt, then waitForSessionIdle.
WorkPrompt ==
  /\ pc = "work_prompt"
  /\ SendPrompt(workId, "workPrompt", "review_enter")
  /\ UNCHANGED << exitCode, planContent, unfinished, milestoneIndex, readsFound,
                  maxIterations, iteration, workId, reviewId, commitId,
                  commandResult, reviewResult,
                  fetched, disposeLogged, fnArg, fnResult >>

\* The mark-tasks prompt, then waitForSessionIdle.
MarkPrompt ==
  /\ pc = "mark_prompt"
  /\ SendPrompt(workId, "markPrompt", "work_dispose")
  /\ UNCHANGED << exitCode, planContent, unfinished, milestoneIndex, readsFound,
                  maxIterations, iteration, workId, reviewId, commitId,
                  commandResult, reviewResult,
                  fetched, disposeLogged, fnArg, fnResult >>

\* finally { disposeInstance }, then runCommitInstance's createOpencode.
WorkDispose ==
  /\ pc = "work_dispose"
  /\ DisposeInstance(workId)
  /\ workId' = 0
  /\ pc' = AfterFinally(error', HandlerPc(0, reviewId, commitId), "commit_create")
  /\ wait' = NoWait
  /\ elapsed' = 0
  /\ status' = "none"
  /\ UNCHANGED << exitCode, planContent, unfinished, milestoneIndex,
                  readsFound, maxIterations, iteration, reviewId, commitId,
                  commandResult, reviewResult, log, fetched, fnArg, fnResult >>

(***************************************************************************)
(* runReviewLoop                                                           *)
(***************************************************************************)
\* Mutant: the loop stops one iteration early.
ForConditionStrict(i, max) == i < max

\* The condition of the for loop.
ForCondition(i, max) == i <= max

LoopHead(i) ==
  IF ForCondition(i, maxIterations)
  THEN pc' = "review_create" /\ error' = error
  ELSE Throw("ReviewLoopExceeded")

\* for (let iteration = 1; ...
ReviewEnter ==
  /\ pc = "review_enter"
  /\ iteration' = 1
  /\ LoopHead(1)
  /\ wait' = NoWait
  /\ elapsed' = 0
  /\ status' = "none"
  /\ UNCHANGED << exitCode, planContent, unfinished, milestoneIndex, readsFound,
                  maxIterations, instances, workId, reviewId, commitId,
                  commandResult, reviewResult, log,
                  fetched, disposeLogged, fnArg, fnResult >>

\* ...; iteration += 1)
ReviewNext ==
  /\ pc = "review_next"
  /\ iteration' = iteration + 1
  /\ LoopHead(iteration + 1)
  /\ wait' = NoWait
  /\ elapsed' = 0
  /\ status' = "none"
  /\ UNCHANGED << exitCode, planContent, unfinished, milestoneIndex, readsFound,
                  maxIterations, instances, workId, reviewId, commitId,
                  commandResult, reviewResult, log,
                  fetched, disposeLogged, fnArg, fnResult >>

\* What the review returned, whatever the loop makes of it.
ReviewEvent(reviewJson) ==
  IF /\ HasKey(reviewJson, "findings")
     /\ Field(reviewJson, "findings").type = "array"
     /\ Field(reviewJson, "findings").items = <<>>
  THEN "clean"
  ELSE "findings"

\* Mutant: the loop ends after any review that parsed.
AfterReviewAlwaysMark(empty) == "mark_prompt"

\* Where runReviewLoop goes with the answer of isFindingsEmpty: out of the
\* loop, to the mark-tasks prompt, or to the fix prompt.
AfterReview(empty) == IF empty = "empty" THEN "mark_prompt" ELSE "fix_prompt"

\* if (isFindingsEmpty(reviewResult)) return; else the fix prompt.
ReviewResult ==
  /\ pc = "review_result"
  /\ LET empty == isFindingsEmpty(reviewResult)
     IN  IF empty \in {"NotObject", "NoFindingsArray"}
         THEN Throw(empty) /\ log' = log
         ELSE /\ log' = Append(log, ReviewEvent(reviewResult))
              /\ pc' = AfterReview(empty)
              /\ error' = error
  /\ disposeLogged' = FALSE
  /\ UNCHANGED << exitCode, planContent, unfinished, milestoneIndex, readsFound,
                  maxIterations, iteration, instances, workId, reviewId, commitId,
                  commandResult, reviewResult, wait, elapsed, status,
                  fetched, fnArg, fnResult >>

\* The fix prompt to the work session, then waitForSessionIdle.
FixPrompt ==
  /\ pc = "fix_prompt"
  /\ SendPrompt(workId, "fixPrompt", "review_next")
  /\ UNCHANGED << exitCode, planContent, unfinished, milestoneIndex, readsFound,
                  maxIterations, iteration, workId, reviewId, commitId,
                  commandResult, reviewResult,
                  fetched, disposeLogged, fnArg, fnResult >>

(***************************************************************************)
(* runReviewCommand                                                        *)
(***************************************************************************)
ReviewCreate ==
  /\ pc = "review_create"
  /\ CreateOpencode("review", "review_session")
  /\ reviewId' = Created
  /\ UNCHANGED << exitCode, planContent, unfinished, milestoneIndex, readsFound,
                  maxIterations, iteration, workId, commitId, commandResult,
                  reviewResult, wait, elapsed, status, log,
                  fetched, disposeLogged, fnArg, fnResult >>

ReviewSession ==
  /\ pc = "review_session"
  /\ SessionCreate(reviewId, "review_command")
  /\ UNCHANGED << exitCode, planContent, unfinished, milestoneIndex, readsFound,
                  maxIterations, iteration, workId, reviewId, commitId,
                  commandResult, reviewResult, wait, elapsed, status, log,
                  fetched, disposeLogged, fnArg, fnResult >>

\* session.command, then waitForSessionIdle under the review timeout.
ReviewCommand ==
  /\ pc = "review_command"
  /\ \/ /\ Throw("ProviderError")
        /\ UNCHANGED << instances, commandResult, wait, elapsed, status, log >>
     \/ \E result \in CommandResults :
          /\ commandResult' = result
          /\ instances' = Deliver(reviewId)
          /\ log' = Append(log, "review")
          /\ wait' = [sid |-> reviewId, timeoutMs |-> ReviewTimeoutMs, ret |-> "review_fetch"]
          /\ elapsed' = 0
          /\ status' = "none"
          /\ pc' = "wait_status"
          /\ error' = error
  /\ UNCHANGED << exitCode, planContent, unfinished, milestoneIndex, readsFound,
                  maxIterations, iteration, workId, reviewId, commitId, reviewResult,
                  fetched, disposeLogged, fnArg, fnResult >>

\* parts = message?.parts ?? parts
Coalesce(messageParts, parts) == IF messageParts.present THEN messageParts ELSE parts

\* The rest of the try block once the session is idle, given the parts to read.
ReadOutput(parts) ==
  LET output == collectCommandOutput(parts)
      json == extractReviewJson(output)
  IN  IF Trim(output) = <<>> THEN Throw("EmptyOutput") /\ reviewResult' = reviewResult
      ELSE IF json.outcome = "parsed"
           THEN pc' = "review_dispose" /\ error' = error /\ reviewResult' = json.value
      ELSE IF json.outcome = "hang"
           THEN pc' = "hang" /\ error' = error /\ reviewResult' = reviewResult
      ELSE Throw(json.outcome) /\ reviewResult' = reviewResult

\* The message re-fetch when the command response names one, then the output.
ReviewFetch ==
  /\ pc = "review_fetch"
  /\ IF commandResult.messageID
     THEN \/ /\ Throw("ProviderError")
             /\ reviewResult' = reviewResult
             /\ fetched' = fetched
          \/ \E messageParts \in MessageParts :
               /\ fetched' = [done |-> TRUE, parts |-> messageParts]
               /\ ReadOutput(Coalesce(messageParts, commandResult.parts))
     ELSE ReadOutput(commandResult.parts) /\ fetched' = fetched
  /\ wait' = NoWait
  /\ elapsed' = 0
  /\ status' = "none"
  /\ UNCHANGED << exitCode, planContent, unfinished, milestoneIndex, readsFound,
                  maxIterations, iteration, instances, workId, reviewId, commitId,
                  commandResult, log, disposeLogged, fnArg, fnResult >>

\* finally { disposeInstance }, then back in runReviewLoop.
ReviewDispose ==
  /\ pc = "review_dispose"
  /\ DisposeInstance(reviewId)
  /\ reviewId' = 0
  /\ commandResult' = NoCommand
  /\ fetched' = NoMessage
  /\ pc' = AfterFinally(error', HandlerPc(workId, 0, commitId), "review_result")
  /\ wait' = NoWait
  /\ elapsed' = 0
  /\ status' = "none"
  /\ UNCHANGED << exitCode, planContent, unfinished, milestoneIndex,
                  readsFound, maxIterations, iteration, workId, commitId,
                  reviewResult, log, fnArg, fnResult >>

(***************************************************************************)
(* runCommitInstance                                                       *)
(***************************************************************************)
CommitCreate ==
  /\ pc = "commit_create"
  /\ CreateOpencode("commit", "commit_session")
  /\ commitId' = Created
  /\ disposeLogged' = FALSE
  /\ UNCHANGED << exitCode, planContent, unfinished, milestoneIndex, readsFound,
                  maxIterations, iteration, workId, reviewId, commandResult,
                  reviewResult, wait, elapsed, status, log,
                  fetched, fnArg, fnResult >>

CommitSession ==
  /\ pc = "commit_session"
  /\ SessionCreate(commitId, "commit_prompt")
  /\ UNCHANGED << exitCode, planContent, unfinished, milestoneIndex, readsFound,
                  maxIterations, iteration, workId, reviewId, commitId,
                  commandResult, reviewResult, wait, elapsed, status, log,
                  fetched, disposeLogged, fnArg, fnResult >>

\* The commit prompt, then waitForSessionIdle.
CommitPrompt ==
  /\ pc = "commit_prompt"
  /\ SendPrompt(commitId, "commitPrompt", "commit_dispose")
  /\ UNCHANGED << exitCode, planContent, unfinished, milestoneIndex, readsFound,
                  maxIterations, iteration, workId, reviewId, commitId,
                  commandResult, reviewResult,
                  fetched, disposeLogged, fnArg, fnResult >>

\* finally { disposeInstance }, then main's loop again.
CommitDispose ==
  /\ pc = "commit_dispose"
  /\ DisposeInstance(commitId)
  /\ commitId' = 0
  /\ pc' = AfterFinally(error', HandlerPc(workId, reviewId, 0), "loop")
  /\ wait' = NoWait
  /\ elapsed' = 0
  /\ status' = "none"
  /\ UNCHANGED << exitCode, planContent, unfinished, milestoneIndex,
                  readsFound, maxIterations, iteration, workId, reviewId,
                  commandResult, reviewResult, log, fetched, fnArg, fnResult >>

(***************************************************************************)
(* The agents of the provider: a session's turn starts some time after the *)
(* prompt or command was acknowledged, and ends some time later; a turn    *)
(* may rewrite PLAN.md.  A closed server runs no turn.                     *)
(***************************************************************************)
AgentStart ==
  /\ \E i \in 1..Len(instances) :
       /\ instances[i].closes = 0
       /\ instances[i].session = "pending"
       /\ instances' = [instances EXCEPT ![i].session = "running"]
  /\ UNCHANGED << pc, error, exitCode, planContent, unfinished, milestoneIndex,
                  readsFound, maxIterations, iteration, workId, reviewId, commitId,
                  commandResult, reviewResult, wait, elapsed, status, log,
                  fetched, disposeLogged, fnArg, fnResult >>

AgentFinish ==
  /\ \E i \in 1..Len(instances) :
       /\ instances[i].closes = 0
       /\ instances[i].session = "running"
       /\ instances' = [instances EXCEPT ![i].session = "idle"]
  /\ planContent' \in PlanTexts
  /\ UNCHANGED << pc, error, exitCode, unfinished, milestoneIndex, readsFound,
                  maxIterations, iteration, workId, reviewId, commitId,
                  commandResult, reviewResult, wait, elapsed, status, log,
                  fetched, disposeLogged, fnArg, fnResult >>

Next ==
  \/ Start
  \/ MainLoop
  \/ Catch
  \/ WorkCreate
  \/ WorkSession
  \/ WorkPrompt
  \/ MarkPrompt
  \/ WorkDispose
  \/ ReviewEnter
  \/ ReviewNext
  \/ ReviewResult
  \/ FixPrompt
  \/ ReviewCreate
  \/ ReviewSession
  \/ ReviewCommand
  \/ ReviewFetch
  \/ ReviewDispose
  \/ CommitCreate
  \/ CommitSession
  \/ CommitPrompt
  \/ CommitDispose
  \/ WaitStatus
  \/ WaitDelay
  \/ AgentStart
  \/ AgentFinish

Spec == Init /\ [][Next]_vars

(***************************************************************************)
(* The functions on their own: hasUnfinishedTasks, extractReviewJson and   *)
(* the entry of runReviewLoop (parseNumber and the first loop test), each  *)
(* applied once to an argument drawn from all texts up to a length.        *)
(***************************************************************************)
\* The texts of at most n characters of chars.
TextsUpTo(chars, n) == UNION {[1..k -> chars] : k \in 0..n}

ChecklistChars == {"-", "*", " ", "[", "]", "x", "\n"}

ReviewLexemes == {"{", "}", "[", "]", ":", "\"findings\"", "1", " ", "prose"}

\* What a review output ends with.
ReviewTails ==
  { <<>>, CleanJson, FindingsJson, CleanJson \o <<"\n">>, <<"\"a\"", ":", "1", "}">> }

EnvChars == {"-", "+", "0", "1", "2", "a", " ", "."}

FnCalls ==
  [fn : {"hasUnfinishedTasks"},
   value : {EnvText(t) : t \in TextsUpTo(ChecklistChars, MaxTextLen)}]
  \cup
  [fn : {"extractReviewJson"},
   value : {EnvText(t \o tail) : t \in TextsUpTo(ReviewLexemes, MaxPrefixLen),
                                 tail \in ReviewTails}]
  \cup
  [fn : {"parseNumber"},
   value : {Unset} \cup {EnvText(t) : t \in TextsUpTo(EnvChars, MaxEnvLen)}]

FnInit ==
  /\ pc = "call"
  /\ fnArg \in FnCalls
  /\ fnResult = NoResult
  /\ error = "none"
  /\ exitCode = 0
  /\ planContent = <<>>
  /\ unfinished = "unread"
  /\ milestoneIndex = 0
  /\ readsFound = 0
  /\ maxIterations = DEFAULT_MAX_REVIEW_ITERATIONS
  /\ iteration = 0
  /\ instances = <<>>
  /\ workId = 0
  /\ reviewId = 0
  /\ commitId = 0
  /\ commandResult = NoCommand
  /\ reviewResult = JNull
  /\ wait = NoWait
  /\ elapsed = 0
  /\ status = "none"
  /\ log = <<>>
  /\ fetched = NoMessage
  /\ disposeLogged = FALSE

\* hasUnfinishedTasks on the content read.
HasUnfinishedTasksCall ==
  /\ pc = "call"
  /\ fnArg.fn = "hasUnfinishedTasks"
  /\ planContent' = fnArg.value.text
  /\ fnResult' = [outcome |-> IF hasUnfinishedTasks(fnArg.value.text) THEN "true" ELSE "false",
                  value |-> JNull]
  /\ pc' = "returned"
  /\ UNCHANGED << error, exitCode, unfinished, milestoneIndex, readsFound,
                  maxIterations, iteration, instances, workId, reviewId, commitId,
                  commandResult, reviewResult, wait, elapsed, status, log,
                  fetched, disposeLogged, fnArg >>

\* extractReviewJson on an output; a scan that repeats does not return.
ExtractReviewJsonCall ==
  /\ pc = "call"
  /\ fnArg.fn = "extractReviewJson"
  /\ fnResult' = extractReviewJson(fnArg.value.text)
  /\ pc' = IF extractReviewJson(fnArg.value.text).outcome = "hang" THEN "hang" ELSE "returned"
  /\ UNCHANGED << error, exitCode, planContent, unfinished, milestoneIndex, readsFound,
                  maxIterations, iteration, instances, workId, reviewId, commitId,
                  commandResult, reviewResult, wait, elapsed, status, log,
                  fetched, disposeLogged, fnArg >>

\* runReviewLoop up to its first loop test: maxIterations = parseNumber(...),
\* iteration = 1, then the body (a review command) or the throw after the loop.
ParseNumberCall ==
  /\ pc = "call"
  /\ fnArg.fn = "parseNumber"
  /\ maxIterations' = parseNumber(fnArg.value, DEFAULT_MAX_REVIEW_ITERATIONS)
  /\ iteration' = 1
  /\ fnResult' = [outcome |-> "number",
                  value |-> JNumber(parseNumber(fnArg.value, DEFAULT_MAX_REVIEW_ITERATIONS))]
  /\ IF ForCondition(1, parseNumber(fnArg.value, DEFAULT_MAX_REVIEW_ITERATIONS))
     THEN pc' = "review_create" /\ error' = error
     ELSE Throw("ReviewLoopExceeded")
  /\ UNCHANGED << exitCode, planContent, unfinished, milestoneIndex, readsFound,
                  instances, workId, reviewId, commitId,
                  commandResult, reviewResult, wait, elapsed, status, log,
                  fetched, disposeLogged, fnArg >>

FnNext ==
  \/ HasUnfinishedTasksCall
  \/ ExtractReviewJsonCall
  \/ ParseNumberCall

FnSpec == FnInit /\ [][FnNext]_vars

(***************************************************************************)
(* Properties.                                                             *)
(***************************************************************************)
\* How many times event e is in the log of the cycle.
Count(e) == Cardinality({i \in 1..Len(log) : log[i] = e})

\* How many times event e is among the first n entries of the log.
CountBefore(e, n) == Cardinality({i \in 1..n : log[i] = e})

Unwinding == {"review_dispose", "work_dispose", "commit_dispose", "catch", "done"}

AllDisposedOnce ==
  \A i \in 1..Len(instances) :
    instances[i].disposeCalls = 1 /\ instances[i].closes = 1

\* C1: when every review of a cycle returns findings (and no other step
\* fails), the review loop runs exactly maxIterations reviews and sends
\* exactly maxIterations fix prompts, then fails with ReviewLoopExceeded:
\* no mark-tasks prompt, no commit phase, the work instance disposed, and a
\* non-zero exit code.
C1_ReviewLoopExceeded ==
  /\ Count("review") <= maxIterations
  /\ Count("fixPrompt") <= maxIterations
  /\ (Count("fixIdle") = maxIterations /\ pc # "review_next")
        => error = "ReviewLoopExceeded"
  /\ error = "ReviewLoopExceeded" =>
        /\ Count("review") = maxIterations
        /\ Count("findings") = maxIterations
        /\ Count("fixPrompt") = maxIterations
        /\ Count("clean") = 0
        /\ Count("markPrompt") = 0
        /\ Count("commitPrompt") = 0
        /\ \A i \in 1..Len(instances) : instances[i].kind # "commit"
        /\ pc \in Unwinding
        /\ pc \in {"catch", "done"} => AllDisposedOnce
        /\ pc = "done" => exitCode # 0

C1_Witness ==
  /\ pc = "done"
  /\ error = "ReviewLoopExceeded"
  /\ maxIterations = 2
  /\ Count("review") = 2

\* C2: when the k-th review of a cycle is the first to return empty
\* findings, the loop has made exactly k reviews and sent exactly k-1 fix
\* prompts, sends no further fix prompt and runs no further review, and the
\* next step of the cycle is the mark-tasks prompt.
C2_Convergence ==
  \A c \in 1..Len(log) :
    log[c] = "clean" =>
      LET k == CountBefore("review", c)
      IN  /\ k >= 1
          /\ k <= maxIterations
          /\ k = iteration
          /\ CountBefore("findings", c) = k - 1
          /\ CountBefore("fixPrompt", c) = k - 1
          /\ Count("review") = k
          /\ Count("fixPrompt") = k - 1
          /\ Count("clean") = 1
          /\ c < Len(log) => log[c + 1] = "markPrompt"
          /\ (c = Len(log) /\ error = "none") => pc = "mark_prompt"

C2_Witness ==
  /\ Count("clean") = 1
  /\ Count("review") = 2
  /\ Count("fixPrompt") = 1
  /\ Count("markPrompt") = 1

\* The lines of a text: the maximal runs without a line terminator.
RECURSIVE Lines(_, _)
Lines(s, line) ==
  IF s = <<>> THEN <<line>>
  ELSE IF IsLineTerminator(Head(s)) THEN <<line>> \o Lines(Tail(s), <<>>)
  ELSE Lines(Tail(s), Append(line, Head(s)))

\* An unchecked item on one line: blanks, a bullet, blanks, "[", a blank, "]".
UncheckedLine(line) ==
  \E j \in 1..Len(line) : \E k \in (j + 2)..Len(line) :
    /\ \A n \in 1..(j - 1) : IsWhitespace(line[n])
    /\ line[j] \in {"-", "*", "+"}
    /\ \A n \in (j + 1)..(k - 1) : IsWhitespace(line[n])
    /\ k + 2 <= Len(line)
    /\ line[k] = "["
    /\ IsWhitespace(line[k + 1])
    /\ line[k + 2] = "]"

HasUncheckedLine(text) ==
  \E n \in 1..Len(Lines(text, <<>>)) : UncheckedLine(Lines(text, <<>>)[n])

\* C3: the process ends with exit code 0 only if its last read of the
\* checklist found no unchecked item; a run that ends with an error ends
\* with a non-zero exit code.
C3_ExitCode ==
  pc = "done" =>
    /\ exitCode = 0 =>
         /\ unfinished = "no"
         /\ ~HasUncheckedLine(planContent)
         /\ error = "none"
    /\ error # "none" => exitCode # 0

C3_Witness ==
  /\ pc = "done"
  /\ exitCode = 0
  /\ milestoneIndex = 2

\* C4: a cycle is started only right after a read that found an unchecked
\* item: the cycles started are as many as the reads that found one, and
\* once a read finds none the process is done (no session is created and no
\* provider call is made).
C4_CyclePerRead ==
  /\ milestoneIndex = readsFound
  /\ pc \notin {"start", "loop", "catch", "done"} => unfinished = "yes"
  /\ unfinished = "no" => (pc = "done" /\ error = "none")
  /\ milestoneIndex = 0 => (instances = <<>> /\ log = <<>>)
  /\ Cardinality({i \in 1..Len(instances) : instances[i].kind = "work"}) <= 1

C4_Witness ==
  /\ pc = "done"
  /\ unfinished = "no"
  /\ milestoneIndex = 1
  /\ Count("commitIdle") = 1

\* C5: a prompt or command sent to a session that has received one before
\* finds the session idle: its earlier turn is neither pending nor running.
C5_PromptWhenIdle ==
  [][\A i \in 1..Len(instances) :
       (/\ i <= Len(instances')
        /\ instances[i].received > 0
        /\ instances'[i].received > instances[i].received)
          => instances[i].session = "idle"]_vars

C5_Witness ==
  \E i \in 1..Len(instances) :
    /\ instances[i].kind = "work"
    /\ instances[i].received = 3
    /\ instances[i].session = "running"

\* C6: every instance created is disposed exactly once before the process
\* ends (and before the next cycle starts), whatever the outcome.
C6_DisposedOnce ==
  /\ \A i \in 1..Len(instances) :
       instances[i].disposeCalls <= 1 /\ instances[i].closes <= 1
  /\ pc \in {"loop", "catch", "done"} => AllDisposedOnce

C6_Witness ==
  /\ pc = "done"
  /\ error = "Timeout"
  /\ Len(instances) = 2
  /\ instances[2].kind = "review"

\* C7: once a step has failed, the orchestrator creates no instance and no
\* session, sends no prompt and no command, polls no status and starts no
\* cycle: it only disposes the open instances, and the run ends with that
\* error.
C7_FailureAborts ==
  [][error # "none" =>
       /\ error' = error
       /\ pc' \in Unwinding
       /\ Len(instances') = Len(instances)
       /\ \A i \in 1..Len(instances) :
            /\ instances'[i].received = instances[i].received
            /\ instances[i].session = "none" => instances'[i].session = "none"
       /\ log' = log
       /\ milestoneIndex' = milestoneIndex]_vars

C7_Witness ==
  /\ error = "ParseFailure"
  /\ pc = "work_dispose"
  /\ Len(instances) = 2
  /\ instances[2].closes = 1

\* C8: a status answer without an entry for the awaited session fails the
\* wait with SessionMissing at once: no sleep and no status call follows.
C8_SessionMissing ==
  status = "missing" =>
    /\ error = "SessionMissing"
    /\ pc = HandlerPc(workId, reviewId, commitId)

C8_Witness ==
  /\ status = "missing"
  /\ elapsed = 0
  /\ wait.timeoutMs = SessionTimeoutMs

\* C9: the wait returns only if the session was seen idle before timeoutMs
\* had elapsed since the wait started, and fails with Timeout when the time
\* is up before idle is seen, also when the answer that says idle was asked
\* for before the deadline and arrives after it.
C9_IdleWithinTimeout ==
  /\ status = "idle" => elapsed <= wait.timeoutMs
  /\ (/\ status \in {"idle", "busy"}
      /\ elapsed > wait.timeoutMs
      /\ pc \notin {"wait_status", "wait_delay"}
      /\ error # "ProviderError") => error = "Timeout"

\* The steps of a cycle, each with the steps that may follow it.
Follows ==
  { <<"workPrompt", "workIdle">>, <<"workIdle", "review">>,
    <<"review", "reviewIdle">>, <<"reviewIdle", "findings">>,
    <<"reviewIdle", "clean">>, <<"findings", "fixPrompt">>,
    <<"fixPrompt", "fixIdle">>, <<"fixIdle", "review">>,
    <<"clean", "markPrompt">>, <<"markPrompt", "markIdle">>,
    <<"markIdle", "commitPrompt">>, <<"commitPrompt", "commitIdle">> }

\* C10: the steps of a cycle occur in the order work prompt, work idle,
\* review iterations, mark-tasks prompt, mark-tasks idle, commit prompt,
\* commit idle.
C10_CycleOrder ==
  /\ log # <<>> => log[1] = "workPrompt"
  /\ \A i \in 1..(Len(log) - 1) : <<log[i], log[i + 1]>> \in Follows
  /\ Count("workPrompt") <= 1
  /\ Count("markPrompt") <= 1
  /\ Count("commitPrompt") <= 1

C10_Witness ==
  /\ Count("commitIdle") = 1
  /\ Count("fixIdle") = 1

PromptEvents == {"workPrompt", "fixPrompt", "markPrompt", "review", "commitPrompt"}

\* C11: no session is used in more than one phase: a review command goes to
\* the session of the instance created for that invocation, which has
\* received nothing before; the commit prompt goes to the fresh session of a
\* commit instance, not to the work session; the milestone, fix and
\* mark-tasks prompts go to the one work session of the cycle, the first
\* instance created in it.
C11_SessionPerPhase ==
  [][\A i \in 1..Len(instances) :
       (/\ i <= Len(instances')
        /\ instances'[i].received > instances[i].received)
          => /\ Len(log') = Len(log) + 1
             /\ log'[Len(log')] \in PromptEvents
             /\ log'[Len(log')] = "review" =>
                  /\ instances[i].kind = "review"
                  /\ instances[i].received = 0
                  /\ i = Len(instances)
                  /\ i # workId
             /\ log'[Len(log')] = "commitPrompt" =>
                  /\ instances[i].kind = "commit"
                  /\ instances[i].received = 0
                  /\ i = Len(instances)
                  /\ i # 1
             /\ log'[Len(log')] \in {"workPrompt", "fixPrompt", "markPrompt"} =>
                  /\ instances[i].kind = "work"
                  /\ i = 1
                  /\ i = workId]_vars

C11_Witness ==
  /\ Len(instances) = 4
  /\ instances[1].kind = "work" /\ instances[1].received = 3
  /\ instances[2].kind = "review" /\ instances[2].received = 1
  /\ instances[3].kind = "review" /\ instances[3].received = 1
  /\ instances[4].kind = "commit" /\ instances[4].received = 1

\* A session is open: created and its instance not yet disposed.
Open(i) == instances[i].session # "none" /\ instances[i].disposeCalls = 0

OpenSessions == {i \in 1..Len(instances) : Open(i)}

\* The open sessions with a turn pending or running.
BusySessions == {i \in OpenSessions : instances[i].session \in {"pending", "running"}}

\* C12 as stated: at no point are two sessions of a cycle open at the same
\* time, and a cycle starts only when every instance of the previous one has
\* been disposed.
C12_NoOverlap ==
  /\ Cardinality(OpenSessions) <= 1
  /\ pc = "loop" => AllDisposedOnce

\* C12, amended: operations are sequential (at most one open session has a
\* turn in flight), but the work session stays open while a review session
\* is open: at most two sessions are open at once, and two open sessions are
\* the work session and the current review session; two review sessions
\* never overlap, the commit session overlaps no other session, and a cycle
\* starts only when every instance of the previous one has been disposed.
C12_WorkReviewOverlap ==
  /\ Cardinality(OpenSessions) <= 2
  /\ \A i, j \in OpenSessions :
       i < j => (instances[i].kind = "work" /\ instances[j].kind = "review")
  /\ Cardinality(BusySessions) <= 1
  /\ pc = "loop" => AllDisposedOnce

C12_Witness ==
  /\ Cardinality(OpenSessions) = 2
  /\ Len(instances) = 3
  /\ instances[1].session = "idle"
  /\ instances[3].session = "running"

\* A review result that is an object whose findings field is a sequence.
WellFormedReview(v) ==
  HasKey(v, "findings") /\ Field(v, "findings").type = "array"

EmptyFindings(v) == WellFormedReview(v) /\ Field(v, "findings").items = <<>>

\* Parsed values of every shape.
ReviewShapes ==
  { JNull, JNumber(1), JString("a"), JArray(<<>>), JObject(<<>>),
    JObject(<< <<"a", JArray(<<>>)>> >>),
    JObject(<< <<"findings", JNull>> >>),
    JObject(<< <<"findings", JNumber(0)>> >>),
    JObject(<< <<"findings", JObject(<<>>)>> >>),
    JObject(<< <<"findings", JArray(<<>>)>> >>),
    JObject(<< <<"findings", JArray(<<JNumber(1)>>)>> >>),
    JObject(<< <<"a", JNumber(1)>>, <<"findings", JArray(<<>>)>> >>) }

\* C13: the review loop takes a result for convergence only when it is an
\* object whose findings field is a sequence with no element; a result that
\* is no object, or whose findings field is absent or no sequence, ends the
\* run with an error: it is not logged as a clean review, no mark-tasks
\* prompt and no fix prompt follows.
C13_MalformedAborts ==
  /\ \A v \in ReviewShapes :
       /\ isFindingsEmpty(v) = "empty" <=> EmptyFindings(v)
       /\ isFindingsEmpty(v) = "nonempty" <=> (WellFormedReview(v) /\ ~EmptyFindings(v))
       /\ isFindingsEmpty(v) = "NotObject" <=> v.type \notin {"object", "array"}
  /\ [][(pc = "review_result" /\ pc' # pc) =>
          IF EmptyFindings(reviewResult)
          THEN pc' = "mark_prompt" /\ error' = "none" /\ log' = Append(log, "clean")
          ELSE IF WellFormedReview(reviewResult)
          THEN pc' = "fix_prompt" /\ error' = "none" /\ log' = Append(log, "findings")
          ELSE /\ error' \in {"NotObject", "NoFindingsArray"}
               /\ pc' = "work_dispose"
               /\ log' = log
               /\ log[Len(log)] = "reviewIdle"]_vars
  /\ [][(error \in {"NotObject", "NoFindingsArray"}) =>
          /\ log' = log
          /\ pc' \in {"work_dispose", "catch", "done"}]_vars

C13_Witness ==
  /\ error = "NoFindingsArray"
  /\ pc = "done"
  /\ log[Len(log)] = "reviewIdle"
  /\ ~WellFormedReview(reviewResult)
  /\ HasKey(reviewResult, "findings")

\* C14: on every checklist text hasUnfinishedTasks answers true if and only
\* if one single line of the text is blanks, a bullet, blanks and a bracket
\* pair around a blank; characters of two or more lines never make a match.
C14_SingleLineMatch ==
  (fnArg.fn = "hasUnfinishedTasks" /\ pc = "returned") =>
    (fnResult.outcome = "true" <=> HasUncheckedLine(fnArg.value.text))

\* C15: when the command response names a message and the message fetched
\* has an empty parts list while the response's own parts are not empty (and
\* give an output that is not blank), the output is read from the response's
\* own parts: the review does not fail with EmptyOutput.
C15_OwnPartsWhenMessageEmpty ==
  (/\ fetched.done
   /\ fetched.parts.present
   /\ fetched.parts.list = <<>>
   /\ commandResult.parts.present
   /\ commandResult.parts.list # <<>>
   /\ Trim(collectCommandOutput(commandResult.parts)) # <<>>)
     => /\ error # "EmptyOutput"
        /\ extractReviewJson(collectCommandOutput(commandResult.parts)).outcome = "parsed"
             => reviewResult =
                  extractReviewJson(collectCommandOutput(commandResult.parts)).value

\* The positions of trimmed (0-based) where a "{" starts a suffix that
\* parses as an object with a findings key.
Candidates(trimmed) ==
  {i \in 0..(Len(trimmed) - 1) :
     /\ trimmed[i + 1] = "{"
     /\ AcceptsReviewJson(JSONparse(Trim(Slice(trimmed, i))))}

\* The reference extraction: the shortest such suffix, parsed.
ReferenceExtract(output) ==
  LET trimmed == Trim(output)
      at == Candidates(trimmed)
      last == CHOOSE i \in at : \A j \in at : j <= i
  IN  IF trimmed = <<>> THEN [outcome |-> "EmptyOutput", value |-> JNull]
      ELSE IF at = {} THEN [outcome |-> "ParseFailure", value |-> JNull]
      ELSE [outcome |-> "parsed", value |-> JSONparse(Trim(Slice(trimmed, last))).value]

\* C16: on every review output extractReviewJson gives what the reference
\* gives: EmptyOutput for a blank text, the parse of the shortest suffix that
\* starts at a "{" and is an object with a findings key, ParseFailure when
\* there is no such suffix.
C16_MatchesReference ==
  (fnArg.fn = "extractReviewJson" /\ pc # "call") =>
    /\ pc = "returned"
    /\ fnResult = ReferenceExtract(fnArg.value.text)

DisposePcs == {"review_dispose", "work_dispose", "commit_dispose"}

\* The statement after the try block whose finally is at pc p.
AfterTry(p) ==
  CASE p = "review_dispose" -> "review_result"
    [] p = "work_dispose" -> "commit_create"
    [] p = "commit_dispose" -> "loop"

\* C17: a failure of the dispose call does not change the outcome of the
\* phase: after a body that succeeded the run goes on with the next step,
\* after a body that failed the pending error stays the body's error, whether
\* the dispose call failed or not.
C17_DisposeFailureSwallowed ==
  [][(pc \in DisposePcs /\ pc' # pc) =>
       /\ error' = error
       /\ error = "none" => pc' = AfterTry(pc)
       /\ error # "none" => pc' \in Unwinding \ {pc}
       /\ exitCode' = exitCode]_vars

C17_Witness ==
  /\ disposeLogged
  /\ error = "SessionMissing"
  /\ pc = "catch"
  /\ Len(instances) = 2

Disposed(i) == instances[i].disposeCalls > 0 \/ instances[i].closes > 0

\* C18: the work instance stays open through the review loop: it is disposed
\* only in runWorkInstance's finally, after the wait that follows the
\* mark-tasks prompt returned or after a step of the work phase failed;
\* disposing a review instance leaves it as it is; no prompt and no status
\* call is made for the work session once its instance is disposed.
C18_WorkOpenThroughReview ==
  /\ [](workId # 0 => ~Disposed(workId))
  /\ [][\A i \in 1..Len(instances) :
          /\ (/\ i <= Len(instances')
              /\ instances'[i].received > instances[i].received) => ~Disposed(i)
          /\ (pc = "wait_status" /\ pc' # pc /\ wait.sid = i) => ~Disposed(i)
          /\ (/\ i <= Len(instances')
              /\ instances[i].kind = "work"
              /\ instances'[i] # instances[i]
              /\ instances'[i].disposeCalls > instances[i].disposeCalls)
                => /\ pc = "work_dispose"
                   /\ i = workId
                   /\ error # "none" \/ log[Len(log)] = "markIdle"
          /\ (pc = "review_dispose" /\ pc' # pc /\ i # reviewId)
                => instances'[i] = instances[i]]_vars

C18_Witness ==
  /\ pc = "wait_status"
  /\ wait.sid = 1
  /\ wait.ret = "work_dispose"
  /\ status = "busy"
  /\ Len(instances) = 3
  /\ instances[1].closes = 0
  /\ instances[2].closes = 1
  /\ instances[3].closes = 1

\* A value that is a positive integer: digits, of a value above zero, with
\* an optional plus sign and blanks around them.
PositiveIntegerText(v) ==
  /\ v.set
  /\ LET t == Trim(v.text)
         u == IF t # <<>> /\ Head(t) = "+" THEN Tail(t) ELSE t
     IN  /\ u # <<>>
         /\ \A k \in 1..Len(u) : IsDigit(u[k])
         /\ DecimalValue(u) > 0

\* The digits a value starts with, after blanks and a sign.
LeadingDigits(v) ==
  LET t == TrimStart(v.text)
  IN  IF t # <<>> /\ Head(t) \in {"-", "+"} THEN DigitPrefix(Tail(t)) ELSE DigitPrefix(t)

LeadingPositive(v) ==
  /\ v.set
  /\ LeadingDigits(v) # <<>>
  /\ DecimalValue(LeadingDigits(v)) > 0
  /\ Head(TrimStart(v.text)) # "-"

\* C19 as stated: the bound is positive, and the default 20 replaces every
\* value that is not a positive integer.
C19_DefaultReplacesInvalid ==
  (fnArg.fn = "parseNumber" /\ pc # "call") =>
    /\ maxIterations >= 1
    /\ ~PositiveIntegerText(fnArg.value) => maxIterations = DEFAULT_MAX_REVIEW_ITERATIONS

\* C19, amended: whatever the configured value, the bound of the review loop
\* is a positive integer: the integer the value starts with (after blanks and
\* a sign) when that is positive, whatever follows it, and the default 20
\* otherwise (unset, empty, no leading digit, zero, negative); so the first
\* loop test passes and a review command is run before ReviewLoopExceeded
\* can be raised or the loop can return.
C19_PositiveBound ==
  (fnArg.fn = "parseNumber" /\ pc # "call") =>
    /\ maxIterations >= 1
    /\ LeadingPositive(fnArg.value)
         => maxIterations = DecimalValue(LeadingDigits(fnArg.value))
    /\ ~LeadingPositive(fnArg.value) => maxIterations = DEFAULT_MAX_REVIEW_ITERATIONS
    /\ PositiveIntegerText(fnArg.value) => LeadingPositive(fnArg.value)
    /\ pc = "review_create"
    /\ error = "none"
    /\ iteration = 1

C19_Witness ==
  /\ fnArg.fn = "parseNumber"
  /\ fnArg.value = EnvText(<<"2", "a">>)
  /\ maxIterations = 2
  /\ pc = "review_create"

\* The points the orchestrator is suspended at and leaves again when the
\* provider answers or the timer fires, and the end of the process.
Awaits ==
  { "start", "loop", "catch", "done",
    "work_create", "work_session", "work_prompt", "mark_prompt", "work_dispose",
    "review_enter", "review_next", "review_result", "fix_prompt",
    "review_create", "review_session", "review_command", "review_fetch",
    "review_dispose", "commit_create", "commit_session", "commit_prompt",
    "commit_dispose", "wait_status", "wait_delay" }

\* C20: with every provider call returning and every sleep advancing the
\* time, a cycle that is started ends: the orchestrator is always at a point
\* it leaves again (never in a step that does not return), every idle wait
\* polls only while the time is below its timeout, and the review loop runs
\* at most maxIterations iterations.
C20_CycleTerminates ==
  /\ pc \in Awaits
  /\ pc = "wait_status" => (status = "none" \/ WithinTimeout(elapsed, wait.timeoutMs))
  /\ iteration <= maxIterations + 1
  /\ Count("review") <= maxIterations

====
